---- MODULE Spec2Model ----
\* Apollo CLI synthetic data generator: the weighted and binary record
\* generators, the batch loop, the serializers and the generate commands.
\*
\* Text is modelled as a sequence of one-character strings, so that
\* str.split, the ':' membership test and float() act on characters.
\* A probability and a random draw are fixed-point numbers in hundredths
\* (1.0 = Unit).  Every probability drawn below is a multiple of 0.25, which
\* binary floating point represents and sums exactly, so the running sum of
\* generate_record is the exact sum for these inputs, and comparing a draw
\* with it gives what the comparison of the exact values gives.
EXTENDS Integers, Sequences, FiniteSets, TLC

VARIABLES
    pc,           \* position: which call is in progress / how it ended
    cmd,          \* the generate command that is running, or "none"
    gen,          \* the generator object: its class, or "none" before construction
    tokens,       \* the pair descriptors choices_str was written from
    choices_str,  \* WeightedGenerator.__init__ argument
    choices,      \* self.choices of the weighted generator: insertion-ordered dict
    probability,  \* BinaryGenerator.probability
    err,          \* the exception that left the call, or NoErr
    rand_val,     \* generate_record: the last random.random() value
    result,       \* generate_record: the last return value
    num_entries,  \* generate_data argument
    data,         \* the list generate_data is building / has returned
    draws,        \* every value random.random() returned during generate_data
    format,       \* command argument
    output,       \* command argument: the output path
    fs,           \* file system: path -> content or Absent
    console       \* messages printed by the command, in order

vars == <<pc, cmd, gen, tokens, choices_str, choices, probability, err, rand_val,
          result, num_entries, data, draws, format, output, fs, console>>

-----------------------------------------------------------------------------
\* Bounds of the model

MaxPairs == 3      \* pairs in a configuration string (constructor runs)
MaxTable == 3      \* entries of a choice table (generate_record runs)
MaxEntries == 2    \* largest num_entries of a command run
MaxCmdPairs == 2   \* pairs in the --choices string of a command run
MaxRecords == 2    \* records handed to a serializer (serializer runs)

-----------------------------------------------------------------------------
\* Values

Unit == 100

\* Python's None; no label is this sequence (labels are sequences of
\* one-character strings).
None == <<"None">>

NoErr == [type |-> "none", msg |-> ""]

ValueError(m) == [type |-> "ValueError", msg |-> m]

OSError(m) == [type |-> "OSError", msg |-> m]

Yes == <<"Y", "e", "s">>

No == <<"N", "o">>

COMMA == ","

COLON == ":"

DigitChars == <<"0", "1", "2", "3", "4", "5", "6", "7", "8", "9">>

IsDigit(c) == \E d \in 1..10 : DigitChars[d] = c

DigitVal(c) == (CHOOSE d \in 1..10 : DigitChars[d] = c) - 1

RECURSIVE Pow10(_)
Pow10(k) == IF k = 0 THEN 1 ELSE 10 * Pow10(k - 1)

-----------------------------------------------------------------------------
\* str.split(sep): the pieces between the separators; '' splits to ['']

RECURSIVE SplitFrom(_, _, _, _, _)
SplitFrom(s, sep, i, cur, acc) ==
    IF i > Len(s) THEN Append(acc, cur)
    ELSE IF s[i] = sep THEN SplitFrom(s, sep, i + 1, <<>>, Append(acc, cur))
    ELSE SplitFrom(s, sep, i + 1, Append(cur, s[i]), acc)

\* A plausible slip: split() without the empty pieces (as str.split() with
\* no separator drops them).
SplitDropEmpty(s, sep) ==
    SelectSeq(SplitFrom(s, sep, 1, <<>>, <<>>), LAMBDA p : p # <<>>)

Split(s, sep) == SplitFrom(s, sep, 1, <<>>, <<>>)

\* `sep in s`
Contains(s, sep) == \E i \in 1..Len(s) : s[i] = sep

-----------------------------------------------------------------------------
\* float(text), for the texts [sign] digits [. digits] with at least one
\* digit; every other text over the model's alphabet raises ValueError.
\* The value is in hundredths; exact for at most two fractional digits.

RECURSIVE DigitsValue(_, _)
DigitsValue(s, acc) ==
    IF s = <<>> THEN acc
    ELSE IF s[1] = "." THEN DigitsValue(Tail(s), acc)
    ELSE DigitsValue(Tail(s), 10 * acc + DigitVal(s[1]))

FloatBody(s) ==
    LET dots == {i \in 1..Len(s) : s[i] = "."}
        digs == {i \in 1..Len(s) : IsDigit(s[i])}
        frac == IF dots = {} THEN 0
                ELSE Len(s) - (CHOOSE i \in dots : TRUE)
    IN  IF Cardinality(dots) <= 1 /\ digs # {}
           /\ Cardinality(dots) + Cardinality(digs) = Len(s)
        THEN [ok |-> TRUE, value |-> (DigitsValue(s, 0) * Unit) \div Pow10(frac)]
        ELSE [ok |-> FALSE, value |-> 0]

float(s) ==
    IF s # <<>> /\ s[1] = "-"
    THEN LET b == FloatBody(Tail(s)) IN [ok |-> b.ok, value |-> 0 - b.value]
    ELSE IF s # <<>> /\ s[1] = "+" THEN FloatBody(Tail(s))
    ELSE FloatBody(s)

-----------------------------------------------------------------------------
\* dict: an insertion-ordered sequence of entries [choice, probability]

HasKey(d, k) == \E i \in 1..Len(d) : d[i].choice = k

\* A plausible slip: a list of pairs instead of a dict (a repeated key is
\* appended again).
DictAppend(d, k, v) == Append(d, [choice |-> k, probability |-> v])

\* A plausible slip: the new entry is put in front.
DictPrepend(d, k, v) ==
    IF HasKey(d, k)
    THEN [i \in 1..Len(d) |->
            IF d[i].choice = k THEN [choice |-> k, probability |-> v] ELSE d[i]]
    ELSE <<[choice |-> k, probability |-> v]>> \o d

\* choices[choice] = probability: a present key keeps its position and takes
\* the new value, a new key goes last.
DictSet(d, k, v) ==
    IF HasKey(d, k)
    THEN [i \in 1..Len(d) |->
            IF d[i].choice = k THEN [choice |-> k, probability |-> v] ELSE d[i]]
    ELSE Append(d, [choice |-> k, probability |-> v])

-----------------------------------------------------------------------------
\* WeightedGenerator._parse_choices

Raise(e) == [raised |-> TRUE, err |-> e, choices |-> <<>>]

\* A plausible slip: the range test is missing.
TryProbabilityNoRange(probability_str) ==
    LET f == float(probability_str)
    IN  IF ~f.ok
        THEN [raised |-> TRUE, value |-> 0,
              err |-> ValueError("could not convert string to float")]
        ELSE [raised |-> FALSE, value |-> f.value, err |-> NoErr]

\* The body of the try block: float() and the range test, each of which
\* raises ValueError.
TryProbability(probability_str) ==
    LET f == float(probability_str)
    IN  IF ~f.ok
        THEN [raised |-> TRUE, value |-> 0,
              err |-> ValueError("could not convert string to float")]
        ELSE IF ~(0 <= f.value /\ f.value <= Unit)
        THEN [raised |-> TRUE, value |-> 0,
              err |-> ValueError("Probability must be between 0 and 1")]
        ELSE [raised |-> FALSE, value |-> f.value, err |-> NoErr]

\* `except ValueError:` re-raises every ValueError of the try block with
\* one message.
ExceptValueError(e) ==
    IF e.type = "ValueError" THEN ValueError("Invalid probability value") ELSE e

\* A plausible slip: the unpacking keeps the first two pieces instead of
\* raising on a third.
UnpackFirstTwo(parts) == [raised |-> FALSE, err |-> NoErr]

\* `choice, probability_str = choice_pair.split(':')`: unpacking anything
\* but two pieces raises ValueError.
Unpack(parts) ==
    IF Len(parts) = 2 THEN [raised |-> FALSE, err |-> NoErr]
    ELSE [raised |-> TRUE, err |-> ValueError("too many values to unpack")]

RECURSIVE ParseFrom(_, _, _)
ParseFrom(pairs, i, acc) ==
    IF i > Len(pairs) THEN [raised |-> FALSE, err |-> NoErr, choices |-> acc]
    ELSE LET choice_pair == pairs[i]
         IN  IF ~Contains(choice_pair, COLON)
             THEN Raise(ValueError("Invalid choice format"))
             ELSE LET parts == Split(choice_pair, COLON)
                      u == Unpack(parts)
                  IN  IF u.raised THEN Raise(u.err)
                      ELSE LET t == TryProbability(parts[2])
                           IN  IF t.raised THEN Raise(ExceptValueError(t.err))
                               ELSE ParseFrom(pairs, i + 1,
                                              DictSet(acc, parts[1], t.value))

parse_choices(s) == ParseFrom(Split(s, COMMA), 1, <<>>)

\* WeightedGenerator.__init__: self.choices is assigned only if
\* _parse_choices returns.
WeightedGenerator(s) == parse_choices(s)

-----------------------------------------------------------------------------
\* The configuration strings of the runs.  A descriptor says how one pair is
\* written: its fields (joined by ':'), and what the writer means by it.

A == <<"A">>

B == <<"B">>

C == <<"C">>

Labels == {A, B, C}

ProbTexts ==
    { [text |-> <<"0">>, value |-> 0],
      [text |-> <<"0", ".", "2", "5">>, value |-> 25],
      [text |-> <<"0", ".", "5">>, value |-> 50],
      [text |-> <<"1">>, value |-> Unit] }

ValidPairs ==
    { [kind |-> "ok", label |-> l, value |-> p.value, fields |-> <<l, p.text>>] :
        l \in Labels, p \in ProbTexts }

BadPairs ==
    { [kind |-> "range", label |-> A, value |-> 150,
       fields |-> <<A, <<"1", ".", "5">>>>],
      [kind |-> "range", label |-> A, value |-> -50,
       fields |-> <<A, <<"-", "0", ".", "5">>>>],
      [kind |-> "nonnumeric", label |-> A, value |-> 0, fields |-> <<A, <<"x">>>>],
      [kind |-> "nonnumeric", label |-> A, value |-> 0, fields |-> <<A, <<>>>>],
      [kind |-> "nocolon", label |-> A, value |-> 0, fields |-> <<A>>],
      [kind |-> "nocolon", label |-> <<>>, value |-> 0, fields |-> <<<<>>>>],
      [kind |-> "manycolon", label |-> A, value |-> 50,
       fields |-> <<A, <<"0", ".", "5">>, <<"1">>>>] }

PairDescs == ValidPairs \cup BadPairs

RECURSIVE Join(_, _)
Join(parts, sep) ==
    IF Len(parts) = 0 THEN <<>>
    ELSE IF Len(parts) = 1 THEN parts[1]
    ELSE parts[1] \o <<sep>> \o Join(Tail(parts), sep)

Render(ts) == Join([i \in 1..Len(ts) |-> Join(ts[i].fields, COLON)], COMMA)

SeqsUpTo(S, n) == UNION { [1..k -> S] : k \in 1..n }

-----------------------------------------------------------------------------
\* Constructor runs: WeightedGenerator(choices_str) for every configuration
\* string of up to MaxPairs pairs.

Idle ==
    /\ cmd = "none" /\ probability = 0 /\ rand_val = 0 /\ result = None
    /\ num_entries = 0 /\ data = <<>> /\ draws = <<>> /\ format = "none"
    /\ output = "none" /\ fs = <<>> /\ console = <<>>

InitParse ==
    /\ pc = "new"
    /\ tokens \in SeqsUpTo(PairDescs, MaxPairs)
    /\ choices_str = Render(tokens)
    /\ gen = "none"
    /\ choices = <<>>
    /\ err = NoErr
    /\ Idle

Construct ==
    /\ pc = "new"
    /\ LET g == WeightedGenerator(choices_str)
       IN  /\ pc' = IF g.raised THEN "raised" ELSE "constructed"
           /\ gen' = IF g.raised THEN "none" ELSE "WeightedGenerator"
           /\ err' = g.err
           /\ choices' = g.choices
    /\ UNCHANGED <<cmd, tokens, choices_str, probability, rand_val, result,
                   num_entries, data, draws, format, output, fs, console>>

NextParse == Construct

SpecParse == InitParse /\ [][NextParse]_vars

-----------------------------------------------------------------------------
\* WeightedGenerator.generate_record, given the value random.random() drew

RECURSIVE Scan(_, _, _, _)
Scan(tbl, r, k, cumulative_probability) ==
    IF k > Len(tbl)
    THEN IF Len(tbl) > 0 THEN tbl[Len(tbl)].choice ELSE None
    ELSE LET c == cumulative_probability + tbl[k].probability
         IN  IF r < c THEN tbl[k].choice ELSE Scan(tbl, r, k + 1, c)

\* A plausible slip: each entry is tested against its own probability, not
\* the running sum.
generate_record_no_sum(tbl, r) ==
    IF \E k \in 1..Len(tbl) : r < tbl[k].probability
    THEN tbl[CHOOSE k \in 1..Len(tbl) :
                /\ r < tbl[k].probability
                /\ \A j \in 1..(k - 1) : ~(r < tbl[j].probability)].choice
    ELSE IF Len(tbl) > 0 THEN tbl[Len(tbl)].choice ELSE None

\* A plausible slip: the fallback returns the first label.
generate_record_first(tbl, r) ==
    LET x == Scan(tbl, r, 1, 0)
    IN  IF Len(tbl) > 0 /\ x = tbl[Len(tbl)].choice THEN tbl[1].choice ELSE x

\* A plausible slip: <= for < in the test against the running sum.
RECURSIVE ScanLe(_, _, _, _)
ScanLe(tbl, r, k, cumulative_probability) ==
    IF k > Len(tbl)
    THEN IF Len(tbl) > 0 THEN tbl[Len(tbl)].choice ELSE None
    ELSE LET c == cumulative_probability + tbl[k].probability
         IN  IF r <= c THEN tbl[k].choice ELSE ScanLe(tbl, r, k + 1, c)

generate_record_le(tbl, r) == ScanLe(tbl, r, 1, 0)

generate_record(tbl, r) == Scan(tbl, r, 1, 0)

\* The values random.random() returns in the runs: [0, 1) in hundredths.
Draws == {0, 25, 40, 50, 75, 90, 99}

-----------------------------------------------------------------------------
\* Sampling runs: generate_record on every table of up to MaxTable entries
\* with distinct labels and probabilities in [0, 1].

TableLabels == {A, B, C, <<"D">>}

TableProbs == {0, 25, 50, Unit}

Tables ==
    { t \in UNION { [1..k -> [choice : TableLabels, probability : TableProbs]] :
                      k \in 0..MaxTable } :
        \A i, j \in 1..Len(t) : i # j => t[i].choice # t[j].choice }

InitRecord ==
    /\ pc = "constructed"
    /\ gen = "WeightedGenerator"
    /\ choices \in Tables
    /\ tokens = <<>> /\ choices_str = <<>>
    /\ err = NoErr
    /\ Idle

GenerateRecord ==
    /\ pc \in {"constructed", "record"}
    /\ gen = "WeightedGenerator"
    /\ \E r \in Draws :
        /\ rand_val' = r
        /\ result' = generate_record(choices, r)
    /\ pc' = "record"
    /\ UNCHANGED <<cmd, gen, tokens, choices_str, choices, probability, err,
                   num_entries, data, draws, format, output, fs, console>>

NextRecord == GenerateRecord

SpecRecord == InitRecord /\ [][NextRecord]_vars

-----------------------------------------------------------------------------
\* BinaryGenerator.generate_record, given the value random.random() drew

\* A plausible slip: <= for <.
binary_generate_record_le(p, r) == IF r <= p THEN Yes ELSE No

binary_generate_record(p, r) == IF r < p THEN Yes ELSE No

\* A plausible slip: one iteration too many.
RangeLenPlusOne(n) == IF n + 1 > 0 THEN n + 1 ELSE 0

\* len(range(n)): the number of iterations of `for _ in range(num_entries)`
RangeLen(n) == IF n > 0 THEN n ELSE 0

-----------------------------------------------------------------------------
\* Records.  A record is a Python dict: an insertion-ordered sequence of
\* items [key, value]; a key is one string, a value a text.

Keys(entry) == [i \in 1..Len(entry) |-> entry[i].key]

HasField(entry, k) == \E i \in 1..Len(entry) : entry[i].key = k

Get(entry, k) == entry[CHOOSE i \in 1..Len(entry) : entry[i].key = k].value

\* {'response': x}
Rec(x) == <<[key |-> "response", value |-> x]>>

RECURSIVE Concat(_)
Concat(ss) == IF ss = <<>> THEN <<>> ELSE Head(ss) \o Concat(Tail(ss))

-----------------------------------------------------------------------------
\* Files.  The content of a file is its text, character by character.

Absent == [exists |-> FALSE, text |-> <<>>]

File(t) == [exists |-> TRUE, text |-> t]

OldFile == File(<<"o", "l", "d", "\n">>)

Paths == {"data.out", "missing_dir/data.out"}

\* open(path, 'w') succeeds: the directory of the path exists.
Writable(path) == path = "data.out"

Returned(f) == [raised |-> FALSE, err |-> NoErr, fs |-> f]

Raised(e, f) == [raised |-> TRUE, err |-> e, fs |-> f]

-----------------------------------------------------------------------------
\* save_csv: csv.DictWriter with its defaults (excel dialect: minimal
\* quoting, "\r\n" line ends; restval '', extrasaction 'raise')

CsvSpecial == {",", "\"", "\n", "\r"}

CsvField(s) ==
    IF \E i \in 1..Len(s) : s[i] \in CsvSpecial
    THEN <<"\"">>
         \o Concat([i \in 1..Len(s) |->
                      IF s[i] = "\"" THEN <<"\"", "\"">> ELSE <<s[i]>>])
         \o <<"\"">>
    ELSE s

\* One row; a row of one empty field is written as "" so that it is not a
\* blank line.
CsvLine(cells) ==
    IF cells = <<<<>>>> THEN <<"\"", "\"", "\r", "\n">>
    ELSE Join([i \in 1..Len(cells) |-> CsvField(cells[i])], ",") \o <<"\r", "\n">>

\* A plausible slip: extrasaction='ignore', extra keys are dropped silently.
HasExtraKeyIgnored(entry, fieldnames) == FALSE

\* DictWriter._dict_to_list: a key outside fieldnames raises ValueError
HasExtraKey(entry, fieldnames) ==
    \E i \in 1..Len(entry) :
        \A k \in 1..Len(fieldnames) : fieldnames[k] # entry[i].key

\* A plausible slip: the cells in the record's own key order.
RowCellsOwnOrder(entry, fieldnames) == [i \in 1..Len(entry) |-> entry[i].value]

\* DictWriter._dict_to_list: the values in fieldnames order, '' for a
\* missing key.
RowCells(entry, fieldnames) ==
    [k \in 1..Len(fieldnames) |->
        IF HasField(entry, fieldnames[k]) THEN Get(entry, fieldnames[k]) ELSE <<>>]

\* A plausible slip: no short-circuit, an empty file is written for no data.
save_csv_no_guard(d, output_path, f) ==
    IF ~Writable(output_path) THEN Raised(OSError("No such file or directory"), f)
    ELSE Returned([f EXCEPT ![output_path] = File(<<>>)])

\* The file is opened (and truncated) before anything is written, the header
\* goes first, and writerows stops at the first record that raises: the rows
\* before it are in the file.
save_csv(d, output_path, f) ==
    IF d = <<>> THEN Returned(f)
    ELSE IF ~Writable(output_path)
    THEN Raised(OSError("No such file or directory"), f)
    ELSE LET fieldnames == Keys(d[1])
             bad == {i \in 1..Len(d) : HasExtraKey(d[i], fieldnames)}
             n == IF bad = {} THEN Len(d)
                  ELSE (CHOOSE i \in bad : \A j \in bad : i <= j) - 1
             header == CsvLine([i \in 1..Len(fieldnames) |-> <<fieldnames[i]>>])
             rows == [i \in 1..n |-> CsvLine(RowCells(d[i], fieldnames))]
             g == [f EXCEPT ![output_path] = File(header \o Concat(rows))]
         IN  IF bad = {} THEN Returned(g)
             ELSE Raised(ValueError("dict contains fields not in fieldnames"), g)

-----------------------------------------------------------------------------
\* save_jsonl: json.dumps of a dict of strings, one per line

JsonEscape(c) ==
    IF c = "\"" THEN <<"\\", "\"">>
    ELSE IF c = "\\" THEN <<"\\", "\\">>
    ELSE IF c = "\n" THEN <<"\\", "n">>
    ELSE IF c = "\r" THEN <<"\\", "r">>
    ELSE <<c>>

Quoted(s) ==
    <<"\"">> \o Concat([i \in 1..Len(s) |-> JsonEscape(s[i])]) \o <<"\"">>

JsonItem(item) == Quoted(<<item.key>>) \o <<":", " ">> \o Quoted(item.value)

RECURSIVE JsonItems(_)
JsonItems(entry) ==
    IF entry = <<>> THEN <<>>
    ELSE IF Len(entry) = 1 THEN JsonItem(entry[1])
    ELSE JsonItem(entry[1]) \o <<",", " ">> \o JsonItems(Tail(entry))

\* {"key": "value", ...}
json_dumps(entry) == <<"{">> \o JsonItems(entry) \o <<"}">>

\* A plausible slip: the file is opened for appending.
save_jsonl_append(d, output_path, f) ==
    IF ~Writable(output_path)
    THEN Raised(OSError("No such file or directory"), f)
    ELSE Returned([f EXCEPT ![output_path] =
            File(f[output_path].text
                 \o Concat([i \in 1..Len(d) |-> json_dumps(d[i]) \o <<"\n">>]))])

save_jsonl(d, output_path, f) ==
    IF ~Writable(output_path)
    THEN Raised(OSError("No such file or directory"), f)
    ELSE Returned([f EXCEPT ![output_path] =
            File(Concat([i \in 1..Len(d) |-> json_dumps(d[i]) \o <<"\n">>]))])

-----------------------------------------------------------------------------
\* save_yaml: yaml.dump of a list of one-key records whose values are plain
\* words (the records the binary and weighted generators produce)

\* A word YAML reads as a boolean is quoted.
YamlScalar(s) == IF s \in {Yes, No} THEN <<"'">> \o s \o <<"'">> ELSE s

save_yaml(d, output_path, f) ==
    IF ~Writable(output_path)
    THEN Raised(OSError("No such file or directory"), f)
    ELSE Returned([f EXCEPT ![output_path] =
            IF d = <<>> THEN File(<<"[", "]", "\n">>)
            ELSE File(Concat([i \in 1..Len(d) |->
                        <<"-", " ", d[i][1].key, ":", " ">>
                        \o YamlScalar(d[i][1].value) \o <<"\n">>]))])

-----------------------------------------------------------------------------
\* Command runs: the body of generate_binary_data_cli and of
\* generate_weighted_data_cli, one run per behaviour.

CmdPairDescs ==
    { d \in PairDescs :
        \/ d.kind = "ok" /\ d.label \in {A, B} /\ d.value \in {25, 50}
        \/ d.kind \in {"range", "nonnumeric"} /\ Len(d.fields[2]) \in {1, 3}
        \/ d.kind = "nocolon" }

BinaryProbs == {0, 50, Unit}

CmdDraws == {0, 40, 99}

Formats == {"csv", "jsonl", "yaml"}

Init ==
    /\ pc = "call"
    /\ cmd \in {"binary", "weighted"}
    /\ \/ /\ cmd = "binary"
          /\ probability \in BinaryProbs
          /\ tokens = <<>>
       \/ /\ cmd = "weighted"
          /\ probability = 0
          /\ tokens \in SeqsUpTo(CmdPairDescs, MaxCmdPairs)
    /\ choices_str = Render(tokens)
    /\ num_entries \in -1..MaxEntries
    /\ format \in Formats
    /\ output \in Paths
    /\ fs \in { f \in [Paths -> {Absent, OldFile}] :
                  \A q \in Paths : ~Writable(q) => f[q] = Absent }
    /\ gen = "none" /\ choices = <<>> /\ err = NoErr
    /\ rand_val = 0 /\ result = None /\ data = <<>> /\ draws = <<>>
    /\ console = <<>>

\* generator = BinaryGenerator(probability)
CmdBinaryConstruct ==
    /\ pc = "call" /\ cmd = "binary"
    /\ gen' = "BinaryGenerator"
    /\ pc' = "generate_data"
    /\ UNCHANGED <<cmd, tokens, choices_str, choices, probability, err, rand_val,
                   result, num_entries, data, draws, format, output, fs, console>>

\* generator = WeightedGenerator(choices_str), inside try/except ValueError
CmdWeightedConstruct ==
    /\ pc = "call" /\ cmd = "weighted"
    /\ LET g == WeightedGenerator(choices_str)
       IN  IF g.raised
           THEN /\ gen' = "none"
                /\ choices' = <<>>
                /\ IF g.err.type = "ValueError"
                   THEN /\ console' = Append(console, [kind |-> "error", text |-> g.err.msg])
                        /\ pc' = "returned"
                        /\ err' = NoErr
                   ELSE /\ console' = console
                        /\ pc' = "raised"
                        /\ err' = g.err
           ELSE /\ gen' = "WeightedGenerator"
                /\ choices' = g.choices
                /\ pc' = "generate_data"
                /\ UNCHANGED <<console, err>>
    /\ UNCHANGED <<cmd, tokens, choices_str, probability, rand_val, result,
                   num_entries, data, draws, format, output, fs>>

\* One iteration of [{'response': self.generate_record()} for _ in range(n)]
GenerateDataStep ==
    /\ pc = "generate_data"
    /\ Len(data) < RangeLen(num_entries)
    /\ \E r \in CmdDraws :
        LET x == IF gen = "BinaryGenerator"
                 THEN binary_generate_record(probability, r)
                 ELSE generate_record(choices, r)
        IN  /\ rand_val' = r
            /\ result' = x
            /\ draws' = Append(draws, r)
            /\ data' = Append(data, Rec(x))
    /\ UNCHANGED <<pc, cmd, gen, tokens, choices_str, choices, probability, err,
                   num_entries, format, output, fs, console>>

\* generate_data returns the list; the progress bar is drawn
GenerateDataReturn ==
    /\ pc = "generate_data"
    /\ ~(Len(data) < RangeLen(num_entries))
    /\ pc' = "save"
    /\ UNCHANGED <<cmd, gen, tokens, choices_str, choices, probability, err,
                   rand_val, result, num_entries, data, draws, format, output,
                   fs, console>>

Serialize(fmt, d, output_path, f) ==
    IF fmt = "csv" THEN save_csv(d, output_path, f)
    ELSE IF fmt = "jsonl" THEN save_jsonl(d, output_path, f)
    ELSE IF fmt = "yaml" THEN save_yaml(d, output_path, f)
    ELSE Returned(f)

\* The format branch.  Neither command catches what open() raises: the
\* binary command has no handler, the weighted one handles ValueError only.
Save ==
    /\ pc = "save"
    /\ LET s == Serialize(format, data, output, fs)
       IN  /\ fs' = s.fs
           /\ IF ~s.raised
              THEN pc' = "saved" /\ UNCHANGED <<err, console>>
              ELSE IF cmd = "weighted" /\ s.err.type = "ValueError"
              THEN /\ console' = Append(console, [kind |-> "error", text |-> s.err.msg])
                   /\ pc' = "returned"
                   /\ err' = NoErr
              ELSE /\ pc' = "raised"
                   /\ err' = s.err
                   /\ console' = console
    /\ UNCHANGED <<cmd, gen, tokens, choices_str, choices, probability, rand_val,
                   result, num_entries, data, draws, format, output>>

\* console.print("... data saved to '{output}' in {format} format.")
Confirm ==
    /\ pc = "saved"
    /\ console' = Append(console, [kind |-> "saved", text |-> output])
    /\ pc' = "returned"
    /\ UNCHANGED <<cmd, gen, tokens, choices_str, choices, probability, err,
                   rand_val, result, num_entries, data, draws, format, output, fs>>

Next ==
    \/ CmdBinaryConstruct
    \/ CmdWeightedConstruct
    \/ GenerateDataStep
    \/ GenerateDataReturn
    \/ Save
    \/ Confirm

Spec == Init /\ [][Next]_vars

-----------------------------------------------------------------------------
\* Serializer runs: save_csv and save_jsonl called on every sequence of up to
\* MaxRecords records with string keys and values, of one shape or mixed;
\* the values hold the characters the formats treat specially.

SaveKeys == {"response", "id"}

SaveValues == {A, <<"B", ",", "\"">>, <<"\n">>}

SaveEntries ==
    { e \in UNION { [1..k -> [key : SaveKeys, value : SaveValues]] : k \in 1..2 } :
        \A i, j \in 1..Len(e) : i # j => e[i].key # e[j].key }

SaveFormats == {"csv", "jsonl"}

InitSave ==
    /\ pc = "save_call"
    /\ data \in UNION { [1..k -> SaveEntries] : k \in 0..MaxRecords }
    /\ format \in SaveFormats
    /\ output \in Paths
    /\ fs \in { f \in [Paths -> {Absent, OldFile}] :
                  \A q \in Paths : ~Writable(q) => f[q] = Absent }
    /\ cmd = "none" /\ gen = "none" /\ tokens = <<>> /\ choices_str = <<>>
    /\ choices = <<>> /\ probability = 0 /\ err = NoErr /\ rand_val = 0
    /\ result = None /\ num_entries = 0 /\ draws = <<>> /\ console = <<>>

\* save_csv(data, output) or save_jsonl(data, output), called directly
SaveCall ==
    /\ pc = "save_call"
    /\ LET s == IF format = "csv" THEN save_csv(data, output, fs)
                ELSE save_jsonl(data, output, fs)
       IN  /\ fs' = s.fs
           /\ err' = s.err
           /\ pc' = IF s.raised THEN "raised" ELSE "saved"
    /\ UNCHANGED <<cmd, gen, tokens, choices_str, choices, probability, rand_val,
                   result, num_entries, data, draws, format, output, console>>

NextSave == SaveCall

SpecSave == InitSave /\ [][NextSave]_vars

-----------------------------------------------------------------------------
\* Properties

RECURSIVE CumSum(_, _)
CumSum(tbl, k) == IF k = 0 THEN 0 ELSE CumSum(tbl, k - 1) + tbl[k].probability

AllValid(ts) == \A i \in 1..Len(ts) : ts[i].kind = "ok"

DistinctLabels(ts) ==
    \A i, j \in 1..Len(ts) : i # j => ts[i].label # ts[j].label

\* The first pair of the string that is not a valid pair
FirstBad(ts) ==
    CHOOSE k \in 1..Len(ts) :
        ts[k].kind # "ok" /\ \A j \in 1..(k - 1) : ts[j].kind = "ok"

\* C1: generate_record returns the first label, in stored order, whose
\* cumulative sum (its own probability included) is strictly greater than
\* the drawn value; no later label is returned when an earlier one crosses.
C1_FirstCrossingWins ==
    pc = "record" =>
        \A k \in 1..Len(choices) :
            ( /\ rand_val < CumSum(choices, k)
              /\ \A j \in 1..(k - 1) : ~(rand_val < CumSum(choices, j)) )
            => result = choices[k].choice

\* C1 witness: table {A:0.5, B:0.5}, r = 0.4, A returned.
C1_Witness ==
    /\ pc = "record"
    /\ choices = <<[choice |-> A, probability |-> 50],
                   [choice |-> B, probability |-> 50]>>
    /\ rand_val = 40
    /\ result = A

\* C2: when the drawn value is at least the sum of all probabilities,
\* generate_record raises nothing and returns the last label of a non-empty
\* table, and None for the empty table.
C2_FallbackIsLastLabel ==
    (pc = "record" /\ rand_val >= CumSum(choices, Len(choices))) =>
        /\ err = NoErr
        /\ result = IF Len(choices) > 0 THEN choices[Len(choices)].choice
                    ELSE None

\* C2 witness: table {A:0.25, B:0.25} (sum 0.5), r = 0.9, B returned.
C2_Witness ==
    /\ pc = "record"
    /\ choices = <<[choice |-> A, probability |-> 25],
                   [choice |-> B, probability |-> 25]>>
    /\ rand_val = 90
    /\ result = B

\* C3: a string of valid pairs with distinct labels parses to the table of
\* exactly those labels, each with its stated probability, in the
\* left-to-right order of the string, not normalized.
C3_ParseKeepsPairsInOrder ==
    (pc # "new" /\ AllValid(tokens) /\ DistinctLabels(tokens)) =>
        /\ pc = "constructed"
        /\ choices = [i \in 1..Len(tokens) |->
                        [choice |-> tokens[i].label,
                         probability |-> tokens[i].value]]

\* C3 witness: "A:0.5,B:0.5,C:0.25" (sum 1.25) parsed as written.
C3_Witness ==
    /\ pc = "constructed"
    /\ choices = <<[choice |-> A, probability |-> 50],
                   [choice |-> B, probability |-> 50],
                   [choice |-> C, probability |-> 25]>>

\* C4: a string with a token that has no ':' or more than one ':' makes the
\* constructor raise ValueError, and no generator (no table) is produced.
C4_MalformedPairRaises ==
    (pc # "new" /\ \E i \in 1..Len(tokens) : Len(tokens[i].fields) # 2) =>
        /\ pc = "raised"
        /\ err.type = "ValueError"
        /\ gen = "none"
        /\ choices = <<>>

\* C4 witness: the first bad token has two ':' and the unpacking raised.
C4_Witness ==
    /\ pc = "raised"
    /\ tokens[FirstBad(tokens)].kind = "manycolon"
    /\ FirstBad(tokens) > 1
    /\ err = ValueError("too many values to unpack")

\* C5 (as claimed): an out-of-range probability is reported with the
\* out-of-range error, a non-numeric one with the non-numeric error, and
\* the two differ.
C5_RangeErrorIsDistinct ==
    (pc = "raised" /\ tokens[FirstBad(tokens)].kind \in {"range", "nonnumeric"}) =>
        /\ err.type = "ValueError"
        /\ tokens[FirstBad(tokens)].kind = "range"
              => err.msg = "Probability must be between 0 and 1"
        /\ tokens[FirstBad(tokens)].kind = "nonnumeric"
              => err.msg # "Probability must be between 0 and 1"

\* C6 (as claimed): the empty string constructs a generator with an empty
\* table.
C6_EmptyStringEmptyTable ==
    (pc # "new" /\ choices_str = <<>>) =>
        /\ pc = "constructed"
        /\ choices = <<>>

\* C6 (amended): the empty string splits to one empty token, which has no
\* ':', so the constructor raises ValueError and produces no generator.
C6_EmptyStringRaises ==
    (pc # "new" /\ choices_str = <<>>) =>
        /\ pc = "raised"
        /\ err = ValueError("Invalid choice format")
        /\ gen = "none"

\* C6 witness
C6_Witness == pc = "raised" /\ choices_str = <<>>

\* C7: with a repeated label parsing succeeds, the table holds each label
\* once, with the probability of its last occurrence, and has as many
\* entries as there are distinct labels.
C7_DuplicateLabelLastWins ==
    (pc # "new" /\ AllValid(tokens)) =>
        /\ pc = "constructed"
        /\ Len(choices) = Cardinality({tokens[i].label : i \in 1..Len(tokens)})
        /\ \A i \in 1..Len(tokens) :
            (\A j \in (i + 1)..Len(tokens) : tokens[j].label # tokens[i].label)
            => /\ Cardinality({k \in 1..Len(choices) :
                                 choices[k].choice = tokens[i].label}) = 1
               /\ \E k \in 1..Len(choices) :
                     choices[k] = [choice |-> tokens[i].label,
                                   probability |-> tokens[i].value]

\* C7 witness: "A:0.5,B:1,A:0.25" gives {A:0.25, B:1}.
C7_Witness ==
    /\ pc = "constructed"
    /\ Len(tokens) = 3
    /\ tokens[1].label = A /\ tokens[3].label = A
    /\ tokens[1].value = 50 /\ tokens[3].value = 25
    /\ choices = <<[choice |-> A, probability |-> 25],
                   [choice |-> B, probability |-> Unit]>>

\* generate_data has returned
GenerateDataDone ==
    \/ pc \in {"save", "saved"}
    \/ pc \in {"returned", "raised"} /\ gen # "none"

\* C8: for n >= 0, generate_data(n) of either generator returns exactly n
\* records, each a mapping with the single key 'response' holding the result
\* of its own generate_record call, one draw per record.
C8_GenerateDataLength ==
    (GenerateDataDone /\ num_entries >= 0) =>
        /\ Len(data) = num_entries
        /\ Len(draws) = num_entries
        /\ \A i \in 1..Len(data) :
            /\ Keys(data[i]) = <<"response">>
            /\ Get(data[i], "response") =
                 IF gen = "BinaryGenerator"
                 THEN binary_generate_record(probability, draws[i])
                 ELSE generate_record(choices, draws[i])

\* C8 witness: a weighted batch of two records from two different draws.
C8_Witness ==
    /\ pc = "save"
    /\ gen = "WeightedGenerator"
    /\ num_entries = 2
    /\ Len(data) = 2
    /\ draws[1] # draws[2]
    /\ data[1] # data[2]

\* C9: the binary generator answers 'Yes' exactly when the draw is below p;
\* so with p = 0 every record is 'No' and with p = 1 every record is 'Yes'.
C9_BinaryYesIffBelow ==
    gen = "BinaryGenerator" =>
        \A i \in 1..Len(data) :
            /\ Get(data[i], "response") \in {Yes, No}
            /\ Get(data[i], "response") = Yes <=> draws[i] < probability
            /\ probability = 0 => Get(data[i], "response") = No
            /\ probability = Unit => Get(data[i], "response") = Yes

\* C9 witness: p = 0 and a draw of 0.0, answered 'No'.
C9_Witness ==
    /\ gen = "BinaryGenerator"
    /\ probability = 0
    /\ Len(data) = 2
    /\ draws[1] = 0
    /\ Get(data[1], "response") = No /\ Get(data[2], "response") = No

\* C10: save_csv on an empty sequence raises nothing and leaves every file
\* as it was: not created if absent, not modified if present.
C10_EmptyCsvIsNoOp ==
    [][ (pc = "save" /\ format = "csv" /\ data = <<>>) =>
            (fs' = fs /\ pc' = "saved" /\ err' = NoErr) ]_vars

\* C10 witness: save_csv returned for an empty batch and the old file is
\* still there.
C10_Witness ==
    /\ pc = "saved"
    /\ format = "csv"
    /\ data = <<>>
    /\ output = "data.out"
    /\ fs[output] = OldFile

\* Reading a file back

Malformed == <<[key |-> "<malformed>", value |-> <<>>]>>

\* json.loads of one line: a JSON string, from the character after its
\* opening quote
RECURSIVE JsonReadString(_, _, _)
JsonReadString(t, i, acc) ==
    IF i > Len(t) THEN [value |-> acc, next |-> i, ok |-> FALSE]
    ELSE IF t[i] = "\"" THEN [value |-> acc, next |-> i + 1, ok |-> TRUE]
    ELSE IF t[i] = "\\" /\ i < Len(t)
    THEN JsonReadString(t, i + 2,
            Append(acc, IF t[i + 1] = "n" THEN "\n"
                        ELSE IF t[i + 1] = "r" THEN "\r"
                        ELSE t[i + 1]))
    ELSE JsonReadString(t, i + 1, Append(acc, t[i]))

\* the items of an object, from the character after '{' or after ', '
RECURSIVE JsonReadItems(_, _, _)
JsonReadItems(t, i, acc) ==
    IF i > Len(t) THEN Malformed
    ELSE IF t[i] = "}" THEN (IF i = Len(t) THEN acc ELSE Malformed)
    ELSE IF t[i] # "\"" THEN Malformed
    ELSE LET k == JsonReadString(t, i + 1, <<>>)
         IN  IF ~k.ok \/ Len(k.value) # 1 \/ k.next + 2 > Len(t)
                \/ t[k.next] # ":" \/ t[k.next + 1] # " " \/ t[k.next + 2] # "\""
             THEN Malformed
             ELSE LET v == JsonReadString(t, k.next + 3, <<>>)
                      item == [key |-> k.value[1], value |-> v.value]
                  IN  IF ~v.ok \/ v.next > Len(t) THEN Malformed
                      ELSE IF t[v.next] = "}"
                      THEN JsonReadItems(t, v.next, Append(acc, item))
                      ELSE IF v.next + 1 <= Len(t) /\ t[v.next] = ","
                              /\ t[v.next + 1] = " "
                      THEN JsonReadItems(t, v.next + 2, Append(acc, item))
                      ELSE Malformed

json_loads(line) ==
    IF Len(line) >= 2 /\ line[1] = "{" THEN JsonReadItems(line, 2, <<>>)
    ELSE Malformed

\* csv.reader: the rows of a text, each a sequence of cells
RECURSIVE CsvReadFrom(_, _, _, _, _, _)
CsvReadFrom(t, i, inq, cell, row, rows) ==
    IF i > Len(t)
    THEN IF cell = <<>> /\ row = <<>> THEN rows
         ELSE Append(rows, Append(row, cell))
    ELSE IF inq
    THEN IF t[i] = "\""
         THEN IF i < Len(t) /\ t[i + 1] = "\""
              THEN CsvReadFrom(t, i + 2, TRUE, Append(cell, "\""), row, rows)
              ELSE CsvReadFrom(t, i + 1, FALSE, cell, row, rows)
         ELSE CsvReadFrom(t, i + 1, TRUE, Append(cell, t[i]), row, rows)
    ELSE IF t[i] = "\"" THEN CsvReadFrom(t, i + 1, TRUE, cell, row, rows)
    ELSE IF t[i] = "," THEN CsvReadFrom(t, i + 1, FALSE, <<>>, Append(row, cell), rows)
    ELSE IF t[i] = "\r" /\ i < Len(t) /\ t[i + 1] = "\n"
    THEN CsvReadFrom(t, i + 2, FALSE, <<>>, <<>>, Append(rows, Append(row, cell)))
    ELSE CsvReadFrom(t, i + 1, FALSE, Append(cell, t[i]), row, rows)

CsvRead(t) == CsvReadFrom(t, 1, FALSE, <<>>, <<>>, <<>>)

\* C11: save_jsonl replaces the file by one newline-terminated line per
\* record, in order; decoding the lines gives back the sequence, equal in
\* length, content and order.
C11_JsonlRoundTrip ==
    (pc = "saved" /\ format = "jsonl") =>
        LET pieces == Split(fs[output].text, "\n")
        IN  /\ fs[output].exists
            /\ Len(pieces) = Len(data) + 1
            /\ pieces[Len(pieces)] = <<>>
            /\ [i \in 1..Len(data) |-> json_loads(pieces[i])] = data

\* C11 witness: two records written, one with two keys and a quote in a
\* value, one with a newline in its value.
C11_Witness ==
    /\ pc = "saved"
    /\ format = "jsonl"
    /\ Len(data) = 2
    /\ Len(data[1]) = 2
    /\ data[1][1].value = <<"B", ",", "\"">>
    /\ data[2][1].value = <<"\n">>
    /\ fs[output].text =
         json_dumps(data[1]) \o <<"\n">> \o json_dumps(data[2]) \o <<"\n">>

KeySet(entry) == {entry[i].key : i \in 1..Len(entry)}

SameKeySet(d) == \A i \in 1..Len(d) : KeySet(d[i]) = KeySet(d[1])

\* C12: for a non-empty sequence of records with one key set, save_csv
\* writes the first record's keys, in its key order, as the first row and
\* then one row per record in order: len(data)+1 rows, row i+1 holding the
\* values of record i under the header's keys.
C12_CsvHeaderAndRows ==
    (pc = "saved" /\ format = "csv" /\ data # <<>> /\ SameKeySet(data)) =>
        LET rows == CsvRead(fs[output].text)
            header == Keys(data[1])
        IN  /\ fs[output].exists
            /\ Len(rows) = Len(data) + 1
            /\ rows[1] = [k \in 1..Len(header) |-> <<header[k]>>]
            /\ \A i \in 1..Len(data) :
                /\ Len(rows[i + 1]) = Len(header)
                /\ \A k \in 1..Len(header) :
                     rows[i + 1][k] = Get(data[i], header[k])

\* C12 witness: two records with the keys in different orders and values
\* that need quoting; the second row follows the first record's key order.
C12_Witness ==
    /\ pc = "saved"
    /\ format = "csv"
    /\ Len(data) = 2
    /\ Keys(data[1]) = <<"id", "response">>
    /\ Keys(data[2]) = <<"response", "id">>
    /\ Get(data[2], "id") = <<"\n">>
    /\ Get(data[2], "response") = <<"B", ",", "\"">>
    /\ CsvRead(fs[output].text)[3] = <<<<"\n">>, <<"B", ",", "\"">>>>

KeysWithinFirst(d) == \A i \in 1..Len(d) : KeySet(d[i]) \subseteq KeySet(d[1])

\* The first record that has a key the first record lacks
FirstExtra(d) ==
    CHOOSE i \in 1..Len(d) :
        /\ ~(KeySet(d[i]) \subseteq KeySet(d[1]))
        /\ \A j \in 1..(i - 1) : KeySet(d[j]) \subseteq KeySet(d[1])

\* C13 (as claimed): save_csv on any non-empty sequence, mixed shapes
\* included, completes without raising and writes a row for every record.
C13_CsvNeverRaisesOnShape ==
    (pc # "save_call" /\ format = "csv" /\ data # <<>> /\ Writable(output)) =>
        /\ pc = "saved"
        /\ Len(CsvRead(fs[output].text)) = Len(data) + 1

\* C13 (amended): save_csv itself validates nothing, and a record that lacks
\* a key of the first record is written with an empty cell; but a record
\* with a key the first record lacks makes DictWriter raise ValueError, and
\* the file is left with the header and the rows before that record.
C13_CsvRaisesOnExtraKey ==
    (pc # "save_call" /\ format = "csv" /\ data # <<>> /\ Writable(output)) =>
        LET rows == CsvRead(fs[output].text)
            header == Keys(data[1])
        IN  IF KeysWithinFirst(data)
            THEN /\ pc = "saved"
                 /\ err = NoErr
                 /\ Len(rows) = Len(data) + 1
                 /\ \A i \in 1..Len(data) : \A k \in 1..Len(header) :
                      rows[i + 1][k] = IF HasField(data[i], header[k])
                                       THEN Get(data[i], header[k]) ELSE <<>>
            ELSE /\ pc = "raised"
                 /\ err.type = "ValueError"
                 /\ Len(rows) = FirstExtra(data)

\* C13 witness: {'response': ..} then {'response': .., 'id': ..}: ValueError,
\* header and first row written.
C13_Witness ==
    /\ pc = "raised"
    /\ format = "csv"
    /\ err = ValueError("dict contains fields not in fieldnames")
    /\ Len(data) = 2
    /\ Keys(data[1]) = <<"response">>
    /\ Keys(data[2]) = <<"response", "id">>
    /\ Len(CsvRead(fs[output].text)) = 2

\* C14 (as claimed): no error leaves a generate command; whatever is raised
\* during construction, generation or serialization, an unwritable output
\* path included, is caught in the command and printed.
C14_NoErrorLeavesCommand == pc # "raised" /\ err = NoErr

C16_ConstructedTableNonEmpty ==
    /\ (cmd = "weighted" /\ pc # "call") =>
          \/ gen = "none" /\ choices = <<>> /\ data = <<>>
          \/ gen = "WeightedGenerator" /\ choices # <<>>
    /\ gen = "WeightedGenerator" =>
          /\ Len(data) > 0 => result # None
          /\ \A i \in 1..Len(data) :
                /\ Get(data[i], "response") # None
                /\ \E k \in 1..Len(choices) :
                      choices[k].choice = Get(data[i], "response")

\* C16 witness: table {A:0.25, B:0.25}; the draw 0.99 falls back to B, the
\* draw 0.0 gives A.
C16_Witness ==
    /\ pc = "save"
    /\ gen = "WeightedGenerator"
    /\ choices = <<[choice |-> A, probability |-> 25],
                   [choice |-> B, probability |-> 25]>>
    /\ draws = <<99, 0>>
    /\ data = <<Rec(B), Rec(A)>>

Confirmed == console # <<>> /\ console[Len(console)].kind = "saved"

\* C17 (as claimed): when the binary or weighted command has printed its
\* 'data saved to <output>' confirmation, the output file exists and holds
\* the serialization of the batch, for every format and num_entries >= 0.
C17_ConfirmedMeansWritten ==
    (Confirmed /\ num_entries >= 0) =>
        /\ fs[output].exists
        /\ fs[output] # OldFile
        /\ format = "jsonl" =>
              LET pieces == Split(fs[output].text, "\n")
              IN  [i \in 1..(Len(pieces) - 1) |-> json_loads(pieces[i])] = data
        /\ format = "csv" => Len(CsvRead(fs[output].text)) = Len(data) + 1

\* C18: a label is returned only if (a) its probability is positive and the
\* sum of the entries before it is below 1, or (b) it is the last label and
\* the total is below 1; a zero-probability label is returned only by the
\* fallback, and a label placed where the running sum has reached 1, never.
C18_ReturnedLabelIsReachable ==
    (pc = "record" /\ result # None) =>
        \E k \in 1..Len(choices) :
            /\ choices[k].choice = result
            /\ \/ choices[k].probability > 0 /\ CumSum(choices, k - 1) < Unit
               \/ k = Len(choices) /\ CumSum(choices, Len(choices)) < Unit
            /\ choices[k].probability = 0 =>
                  (k = Len(choices) /\ rand_val >= CumSum(choices, Len(choices)))
            /\ CumSum(choices, k - 1) < Unit

\* C18 witness: {A:0.5, B:0.5, C:0.5}: the largest draw returns B, C is
\* placed after the sum has reached 1.
C18_Witness ==
    /\ pc = "record"
    /\ choices = <<[choice |-> A, probability |-> 50],
                   [choice |-> B, probability |-> 50],
                   [choice |-> C, probability |-> 50]>>
    /\ rand_val = 99
    /\ result = B

====
